---- MODULE Spec2Model ----
(***************************************************************************)
(* A model of the speech-to-text + chat server: the FastAPI handlers of    *)
(* main.py and the WhisperService, OpenAIService and HealthService         *)
(* classes of services/.                                                   *)
(*                                                                         *)
(* Text is a sequence of characters, each character a one-element token.   *)
(* The module is ASCII: an accented Czech letter is written as its base    *)
(* letter followed by ' (acute), ^ (caron) or * (ring) and is ONE          *)
(* character of the sequence ("a'" is a-acute, "s^" is s-caron).  A string *)
(* literal of the program that is only ever compared as a whole is one     *)
(* TLA+ string, written without the accents.                               *)
(***************************************************************************)
EXTENDS Integers, Sequences, FiniteSets, TLC

\* Bounds of the model.
MaxFrags == 2
MaxTmpFiles == 2

VARIABLES
    api_key,            \* OPENAI_API_KEY is set in the environment
    openai_importable,  \* the openai package can be imported
    started,            \* main.py: startup_event has run
    whisper_model,      \* main.py global: a model is loaded (not None)
    openai_client,      \* main.py global: a client exists (not None)
    ws_is_loaded,       \* WhisperService.is_loaded
    ws_model,           \* WhisperService.model
    os_is_loaded,       \* OpenAIService.is_loaded
    os_client,          \* OpenAIService.client is not None
    tmp_files,          \* the staged temporary files that exist on disk
    message,            \* the message of the chat request being served
    last,               \* what the last handler invocation returned or raised
    events              \* the external effects of the last invocation, in order

vars == <<api_key, openai_importable, started, whisper_model, openai_client,
          ws_is_loaded, ws_model, os_is_loaded, os_client, tmp_files,
          message, last, events>>

env_vars == <<api_key, openai_importable, message>>
main_vars == <<started, whisper_model, openai_client>>
ws_vars == <<ws_is_loaded, ws_model>>
os_vars == <<os_is_loaded, os_client>>

----------------------------------------------------------------------------
\* Text: str.lower, str.strip, the `in` substring test.

Whitespace == {" ", "\t", "\n"}

LowerChar(c) ==
    CASE c = "A" -> "a" [] c = "B" -> "b" [] c = "C" -> "c" [] c = "D" -> "d"
      [] c = "E" -> "e" [] c = "F" -> "f" [] c = "G" -> "g" [] c = "H" -> "h"
      [] c = "I" -> "i" [] c = "J" -> "j" [] c = "K" -> "k" [] c = "L" -> "l"
      [] c = "M" -> "m" [] c = "N" -> "n" [] c = "O" -> "o" [] c = "P" -> "p"
      [] c = "Q" -> "q" [] c = "R" -> "r" [] c = "S" -> "s" [] c = "T" -> "t"
      [] c = "U" -> "u" [] c = "V" -> "v" [] c = "W" -> "w" [] c = "X" -> "x"
      [] c = "Y" -> "y" [] c = "Z" -> "z"
      [] c = "A'" -> "a'" [] c = "C^" -> "c^" [] c = "D^" -> "d^"
      [] c = "E'" -> "e'" [] c = "E^" -> "e^" [] c = "I'" -> "i'"
      [] c = "N^" -> "n^" [] c = "O'" -> "o'" [] c = "R^" -> "r^"
      [] c = "S^" -> "s^" [] c = "T^" -> "t^" [] c = "U'" -> "u'"
      [] c = "U*" -> "u*" [] c = "Y'" -> "y'" [] c = "Z^" -> "z^"
      [] OTHER -> c

Lower(s) == [i \in 1..Len(s) |-> LowerChar(s[i])]

RECURSIVE LStrip(_)
LStrip(s) == IF s # <<>> /\ Head(s) \in Whitespace THEN LStrip(Tail(s)) ELSE s

RECURSIVE RStrip(_)
RStrip(s) ==
    IF s # <<>> /\ s[Len(s)] \in Whitespace
    THEN RStrip(SubSeq(s, 1, Len(s) - 1))
    ELSE s

Strip(s) == RStrip(LStrip(s))

\* needle in hay
Contains(hay, needle) ==
    \E i \in 0..(Len(hay) - Len(needle)) : SubSeq(hay, i + 1, i + Len(needle)) = needle

\* any(word in text for word in words)
AnyWordIn(words, text) == \E word \in words : Contains(text, word)

----------------------------------------------------------------------------
\* main.py: the basic Czech response system of chat_endpoint.

GREETING_REPLY == "Ahoj! Jak se mas? Jsem AI asistent a jsem tu, abych ti pomohl s cimkoli potrebujes."
WELLBEING_REPLY == "Mam se skvele, dekuji za optani! Jak muzu dnes pomoci?"
HELP_REPLY == "Samozrejme ti rad pomohu! Jakou pomoc potrebujes? Muzu ti poradit s ruznymi vecmi."
THANKS_REPLY == "Neni za co! Pokud budes potrebovat dalsi pomoc, klidne se zeptej."
CAPABILITY_REPLY == "Umim prevadet rec na text a chatovat v cestine. Mohu ti pomoci s otazkami, dat rady nebo jen si popovidat."
WEATHER_REPLY == "Bohuzel nemam pristup k aktualnim informacim o pocasi. Doporucuji zkontrolovat si pocasi na internetu nebo v aplikaci."
TIME_REPLY == "Aktualni cas si muzes zkontrolovat na svem zarizeni. Mohu ti pomoct s necim jinym?"

GreetingWords ==
    {<<"a", "h", "o", "j">>,
     <<"z", "d", "r", "a", "v", "i'", "m">>,
     <<"d", "o", "b", "r", "y'", " ", "d", "e", "n">>}
WellbeingWords ==
    {<<"j", "a", "k", " ", "s", "e", " ", "m", "a'", "s^">>,
     <<"c", "o", " ", "d", "e^", "l", "a'", "s^">>}
HelpWords ==
    {<<"p", "o", "m", "o", "c">>,
     <<"p", "o", "m", "o", "c", "t">>,
     <<"p", "o", "m", "o", "z^">>}
ThanksWords ==
    {<<"d", "e^", "k", "u", "j", "i">>,
     <<"d", "i'", "k", "y">>,
     <<"d", "e^", "k", "u", "j", "u">>}
CapabilityWords ==
    {<<"c", "o", " ", "u", "m", "i'", "s^">>,
     <<"c", "o", " ", "d", "o", "k", "a'", "z^", "e", "s^">>}
WeatherWords ==
    {<<"p", "o", "c^", "a", "s", "i'">>,
     <<"v", "e", "n", "k", "u">>}
TimeWords ==
    {<<"c^", "a", "s">>,
     <<"h", "o", "d", "i", "n", "y">>}

\* The if/elif chain, in source order.
Rules ==
    << [words |-> GreetingWords,   response |-> GREETING_REPLY],
       [words |-> WellbeingWords,  response |-> WELLBEING_REPLY],
       [words |-> HelpWords,       response |-> HELP_REPLY],
       [words |-> ThanksWords,     response |-> THANKS_REPLY],
       [words |-> CapabilityWords, response |-> CAPABILITY_REPLY],
       [words |-> WeatherWords,    response |-> WEATHER_REPLY],
       [words |-> TimeWords,       response |-> TIME_REPLY] >>

\* The else branch: f'Rozumim tve zprave: "{message}". Jak ti konkretne mohu pomoci?'
EchoReply(msg) ==
    <<"Rozumim tve zprave: \"">> \o msg \o <<"\". Jak ti konkretne mohu pomoci?">>

\* FirstBranch with the chain evaluated bottom-up: the last branch that holds.
RECURSIVE LastBranch(_, _)
LastBranch(message_lower, i) ==
    IF i > Len(Rules) THEN 0
    ELSE LET later == LastBranch(message_lower, i + 1)
         IN  IF later # 0 THEN later
             ELSE IF AnyWordIn(Rules[i].words, message_lower) THEN i ELSE 0

\* The index of the first branch of the chain, from branch i on, whose test
\* holds of message_lower; 0 when the chain reaches its else.
RECURSIVE FirstBranch(_, _)
FirstBranch(message_lower, i) ==
    IF i > Len(Rules) THEN 0
    ELSE IF AnyWordIn(Rules[i].words, message_lower) THEN i
    ELSE FirstBranch(message_lower, i + 1)

\* response, as lines 178-195 compute it from the stripped message.
BasicResponse(msg) ==
    LET message_lower == Lower(msg)
        branch == FirstBranch(message_lower, 1)
    IN  IF branch = 0 THEN EchoReply(msg) ELSE <<Rules[branch].response>>

----------------------------------------------------------------------------
\* The inputs the handlers are run on.

\* Pieces chat messages are built from (at most MaxFrags of them, concatenated):
\* "Ahoj", ", ", "jak se mas", "pomoc", "diky", "co umis", "venku", "cas", " ", "Nic".
Fragments ==
    {<<"A", "h", "o", "j">>,
     <<",", " ">>,
     <<"j", "a", "k", " ", "s", "e", " ", "m", "a'", "s^">>,
     <<"p", "o", "m", "o", "c">>,
     <<"d", "i'", "k", "y">>,
     <<"c", "o", " ", "u", "m", "i'", "s^">>,
     <<"v", "e", "n", "k", "u">>,
     <<"c^", "a", "s">>,
     <<" ">>,
     <<"N", "i", "c">>}

RECURSIVE MessagesOf(_)
MessagesOf(n) ==
    IF n = 0 THEN {<<>>}
    ELSE LET shorter == MessagesOf(n - 1)
         IN  shorter \cup {m \o f : m \in shorter, f \in Fragments}

Messages == MessagesOf(MaxFrags)

\* conversation_history of a ChatRequest.
Histories == {<<>>, <<[role |-> "assistant", content |-> <<"Ahoj!">>]>>}

\* goals of OpenAIService.chat.
GoalLists == {<<>>, <<"cil">>}

\* What the chat-completion call does: it returns a completion (with or
\* without a usage object) or raises.
TokenCounts == {1, 42}
ChatOutcomes ==
    {[kind |-> "raise", has_usage |-> FALSE, total_tokens |-> 0]}
    \cup {[kind |-> "ok", has_usage |-> FALSE, total_tokens |-> 0]}
    \cup {[kind |-> "ok", has_usage |-> TRUE, total_tokens |-> n] : n \in TokenCounts}

GENERATED_TEXT == "(text generated by the model)"
ERROR_TEXT == "(str of the exception)"

----------------------------------------------------------------------------
\* The state after the modules are imported: the globals of main.py are None
\* and the singletons of services/ are as their __init__ leaves them.  The
\* environment (the credential, the installed packages) and the chat message
\* under study are drawn here and never change.

InitOn(messages) ==
    /\ api_key \in BOOLEAN
    /\ openai_importable \in BOOLEAN
    /\ message \in messages
    /\ started = FALSE
    /\ whisper_model = FALSE
    /\ openai_client = FALSE
    /\ ws_is_loaded = FALSE
    /\ ws_model = "None"
    /\ os_is_loaded = FALSE
    /\ os_client = FALSE
    /\ tmp_files = {}
    /\ last = [op |-> "none"]
    /\ events = <<>>

Init == InitOn({<<>>})

InitChat == InitOn(Messages)

----------------------------------------------------------------------------
\* main.py

\* startup_event
Startup ==
    /\ ~started
    /\ started' = TRUE
    /\ \E load_ok \in BOOLEAN : whisper_model' = load_ok
    /\ IF openai_importable /\ api_key
       THEN \E ctor_ok \in BOOLEAN : openai_client' = ctor_ok
       ELSE openai_client' = openai_client
    /\ last' = [op |-> "startup_event"]
    /\ events' = <<>>
    /\ UNCHANGED <<env_vars, ws_vars, os_vars, tmp_files>>

\* How FastAPI answers: a returned dict is a 200 response, a raised
\* HTTPException a response with its status code.
HttpResponse(outcome) ==
    IF outcome.kind = "return"
    THEN [status_code |-> 200, body |-> outcome.value]
    ELSE [status_code |-> outcome.exc.status_code, detail |-> outcome.exc.detail]

\* The except clause that closes both handlers: HTTPException is an Exception,
\* so whatever the try block raised is raised again as a 500 whose detail is
\* the prefix followed by str(e), written here as the text of the exception.
ExceptException(outcome, prefix) ==
    IF outcome.kind = "raise"
    THEN [outcome EXCEPT !.exc = [type |-> "HTTPException", status_code |-> 500,
                                  detail |-> <<prefix>> \o outcome.exc.detail]]
    ELSE outcome

\* StrippedMessage without the strip.
UnstrippedMessage(request_message) == request_message

\* message = request.message.strip()
StrippedMessage(request_message) == Strip(request_message)

\* The try block of chat_endpoint.
ChatEndpointTry(request_message, history, outcome) ==
    LET msg == StrippedMessage(request_message)
        call == [ev |-> "chat.completions.create", model |-> "gpt-4o-mini",
                 max_tokens |-> 800, n_messages |-> Len(history) + 2, goals |-> FALSE]
        basic == [response |-> BasicResponse(msg), model |-> "basic-czech",
                  tokens_used |-> 0, source |-> "fallback"]
    IN  IF msg = <<>>
        THEN [kind |-> "raise",
              exc |-> [type |-> "HTTPException", status_code |-> 400,
                      detail |-> <<"Message is required">>],
              events |-> <<>>]
        ELSE IF openai_client /\ outcome.kind = "ok"
        THEN [kind |-> "return",
              value |-> [response |-> <<GENERATED_TEXT>>, model |-> "gpt-4o-mini",
                         tokens_used |-> IF outcome.has_usage THEN outcome.total_tokens ELSE 0,
                         source |-> "openai"],
              events |-> <<call>>]
        ELSE [kind |-> "return", value |-> basic,
              events |-> IF openai_client THEN <<call>> ELSE <<>>]

\* POST /chat
ChatEndpoint ==
    /\ started
    /\ \E history \in Histories, outcome \in ChatOutcomes :
         LET done == ExceptException(ChatEndpointTry(message, history, outcome),
                                     "Chat processing failed: ")
         IN  /\ last' = [op |-> "chat_endpoint",
                         client |-> openai_client,
                         call_failed |-> (done.events # <<>> /\ outcome.kind = "raise"),
                         http |-> HttpResponse(done)]
             /\ events' = done.events
    /\ UNCHANGED <<env_vars, main_vars, ws_vars, os_vars, tmp_files>>

----------------------------------------------------------------------------
\* services/openai_service.py

\* OpenAIService.load_client
LoadClient ==
    /\ \E ctor_ok \in BOOLEAN :
         IF ~openai_importable
         THEN /\ os_is_loaded' = FALSE
              /\ os_client' = os_client
              /\ last' = [op |-> "load_client", result |-> FALSE]
         ELSE IF ~api_key
         THEN /\ UNCHANGED os_vars
              /\ last' = [op |-> "load_client", result |-> FALSE]
         ELSE IF ctor_ok
         THEN /\ os_client' = TRUE
              /\ os_is_loaded' = TRUE
              /\ last' = [op |-> "load_client", result |-> TRUE]
         ELSE /\ os_is_loaded' = FALSE
              /\ os_client' = os_client
              /\ last' = [op |-> "load_client", result |-> FALSE]
    /\ events' = <<>>
    /\ UNCHANGED <<env_vars, main_vars, ws_vars, tmp_files>>

\* OpenAIService.get_status
OpenAIStatus ==
    [service |-> "openai", loaded |-> os_is_loaded,
     model |-> IF os_is_loaded THEN "gpt-4o-mini" ELSE "None",
     ready |-> os_is_loaded]

\* OpenAIService.chat: what it returns and the calls it makes.
OpenAIServiceChat(msg, goals, outcome) ==
    LET call == [ev |-> "chat.completions.create", model |-> "gpt-4o-mini",
                 max_tokens |-> 500, n_messages |-> 2, goals |-> (goals # <<>>)]
    IN  IF ~os_is_loaded
        THEN [kind |-> "return",
              value |-> [response |-> <<"OpenAI neni dostupny. Nastavte OPENAI_API_KEY v Railway environment.">>,
                         model |-> "fallback", tokens_used |-> 0, source |-> "fallback"],
              events |-> <<>>]
        ELSE IF outcome.kind = "ok" /\ outcome.has_usage
        THEN [kind |-> "return",
              value |-> [response |-> <<GENERATED_TEXT>>, model |-> "gpt-4o-mini",
                         tokens_used |-> outcome.total_tokens, source |-> "openai"],
              events |-> <<call>>]
        ELSE [kind |-> "return",
              value |-> [response |-> <<"Omlouvame se, doslo k chybe pri komunikaci s OpenAI: ", ERROR_TEXT>>,
                         model |-> "error", tokens_used |-> 0, source |-> "error"],
              events |-> <<call>>]

OpenAIChat ==
    /\ \E goals \in GoalLists, outcome \in ChatOutcomes :
         LET done == OpenAIServiceChat(message, goals, outcome)
         IN  /\ last' = [op |-> "OpenAIService.chat",
                         client |-> os_is_loaded,
                         call_failed |-> (done.events # <<>> /\ done.value.source = "error"),
                         result |-> done]
             /\ events' = done.events
    /\ UNCHANGED <<env_vars, main_vars, ws_vars, os_vars, tmp_files>>

\* POST /transcribe of main.py and WhisperService.transcribe: their inputs.

\* Names of uploaded files: "a.mp3", "a.MP3", "a.m4a", "a.txt", "a".
Filenames ==
    {<<"a", ".", "m", "p", "3">>,
     <<"a", ".", "M", "P", "3">>,
     <<"a", ".", "m", "4", "a">>,
     <<"a", ".", "t", "x", "t">>,
     <<"a">>}

\* The size limit of WhisperService.transcribe, in bytes.
MAX_FILE_SIZE == 25 * 1024 * 1024

\* len(file_content): only the length of the uploaded bytes matters.
Sizes == {1, MAX_FILE_SIZE, MAX_FILE_SIZE + 1}

Languages == {"cs", "en"}

\* The text the engine returns: " ok ".
EngineTexts == {<<" ", "o", "k", " ">>}

\* What the environment does during one invocation: the step that fails, if
\* any (the first failure ends the try block; the unlink of
\* WhisperService.transcribe runs in a finally, so it may fail after the
\* engine did), and the text the engine returns when it succeeds.
Faults == {{}, {"ctor"}, {"read"}, {"write"}, {"engine"}, {"unlink"}, {"engine", "unlink"}}
TranscribeEnvs == [faults : Faults, text : EngineTexts]

\* tempfile.NamedTemporaryFile(delete=False): a file that is not on disk yet.
NewTmpFile == CHOOSE f \in 1..MaxTmpFiles : f \notin tmp_files /\ \A g \in 1..(f - 1) : g \in tmp_files

\* How a call of a handler's body ends, with the effects it had and the files
\* it leaves on disk.  Only an HTTPException has a status code.
Raise(ty, code, detail, evs, files) ==
    [kind |-> "raise", exc |-> [type |-> ty, status_code |-> code, detail |-> detail],
     events |-> evs, files |-> files]

Return(value, evs, files) ==
    [kind |-> "return", value |-> value, events |-> evs, files |-> files]

\* The try block of transcribe_audio.
TranscribeAudioTry(filename, size, env) ==
    LET tmp_file_path == NewTmpFile
        staged == tmp_files \cup {tmp_file_path}
        create == [ev |-> "tmp.create", path |-> tmp_file_path, suffix |-> <<".", "m", "4", "a">>]
        write == [ev |-> "tmp.write", size |-> size]
        call == [ev |-> "engine.transcribe", path |-> tmp_file_path, language |-> "cs"]
        unlink == [ev |-> "tmp.unlink", path |-> tmp_file_path]
    IN  IF ~whisper_model
        THEN Raise("HTTPException", 500, <<"Whisper model not loaded">>, <<>>, tmp_files)
        ELSE IF "read" \in env.faults
        THEN Raise("Exception", 0, <<ERROR_TEXT>>, <<create>>, staged)
        ELSE IF "write" \in env.faults
        THEN Raise("Exception", 0, <<ERROR_TEXT>>, <<create>>, staged)
        ELSE IF "engine" \in env.faults
        THEN Raise("Exception", 0, <<ERROR_TEXT>>, <<create, write, call>>, staged)
        ELSE IF "unlink" \in env.faults
        THEN Raise("Exception", 0, <<ERROR_TEXT>>, <<create, write, call>>, staged)
        ELSE Return([transcript |-> env.text, language |-> "cs"],
                    <<create, write, call, unlink>>, tmp_files)

\* POST /transcribe
TranscribeAudio ==
    /\ started
    /\ \E filename \in Filenames, size \in Sizes, env \in TranscribeEnvs :
         /\ whisper_model => Cardinality(tmp_files) < MaxTmpFiles
         /\ LET done == ExceptException(TranscribeAudioTry(filename, size, env),
                                        "Transcription failed: ")
            IN  /\ last' = [op |-> "transcribe_audio", filename |-> filename, size |-> size,
                            ready |-> whisper_model, http |-> HttpResponse(done)]
                /\ events' = done.events
                /\ tmp_files' = done.files
    /\ UNCHANGED <<env_vars, main_vars, ws_vars, os_vars>>

----------------------------------------------------------------------------
\* services/whisper_service.py

\* WhisperService.load_model: its try block cannot raise.
LoadModel ==
    /\ ws_model' = "openai-api"
    /\ ws_is_loaded' = TRUE
    /\ last' = [op |-> "load_model", result |-> TRUE]
    /\ events' = <<>>
    /\ UNCHANGED <<env_vars, main_vars, os_vars, tmp_files>>

\* WhisperService.get_status
WhisperStatus ==
    [service |-> "whisper", loaded |-> ws_is_loaded,
     model_type |-> IF ws_is_loaded THEN "openai-api" ELSE "None",
     ready |-> ws_is_loaded, memory_optimized |-> TRUE]

\* Path(filename).suffix of a name without directories: from the last dot on,
\* unless that dot starts or ends the name.
Suffix(name) ==
    LET dots == {i \in 1..Len(name) : name[i] = "."}
        i == IF dots = {} THEN 0 ELSE CHOOSE d \in dots : \A e \in dots : e <= d
    IN  IF 1 < i /\ i < Len(name) THEN SubSeq(name, i, Len(name)) ELSE <<>>

allowed_extensions ==
    {<<".", "m", "4", "a">>, <<".", "m", "p", "3">>, <<".", "w", "a", "v">>,
     <<".", "w", "e", "b", "m">>, <<".", "m", "p", "4">>}

\* The try block of lines 63-109 with the except clause of lines 110-112,
\* entered once the three checks have passed.
WhisperApiTranscribe(size, file_extension, language, env) ==
    LET tmp_file_path == NewTmpFile
        staged == tmp_files \cup {tmp_file_path}
        left == IF "unlink" \in env.faults THEN staged ELSE tmp_files
        create == [ev |-> "tmp.create", path |-> tmp_file_path, suffix |-> file_extension]
        write == [ev |-> "tmp.write", size |-> size]
        call == [ev |-> "audio.transcriptions.create", model |-> "whisper-1",
                 language |-> IF language # "cs" THEN language ELSE "czech"]
        unlinked == IF "unlink" \in env.faults THEN <<>>
                    ELSE <<[ev |-> "tmp.unlink", path |-> tmp_file_path]>>
        transcript == Strip(env.text)
        failed == <<"Transcription failed: ">>
    IN  IF ~openai_importable
        THEN Raise("Exception", 0, failed \o <<ERROR_TEXT>>, <<>>, tmp_files)
        ELSE IF ~api_key
        THEN Raise("Exception", 0, failed \o <<"OpenAI API key not configured">>, <<>>, tmp_files)
        ELSE IF "ctor" \in env.faults
        THEN Raise("Exception", 0, failed \o <<ERROR_TEXT>>, <<>>, tmp_files)
        ELSE IF "write" \in env.faults
        THEN Raise("Exception", 0, failed \o <<ERROR_TEXT>>, <<create>>, staged)
        ELSE IF "engine" \in env.faults
        THEN Raise("Exception", 0, failed \o <<ERROR_TEXT>>, <<create, write, call>> \o unlinked, left)
        ELSE Return([transcript |-> transcript, transcription |-> transcript,
                     text |-> transcript, language |-> language, duration |-> 0,
                     file_size |-> size, success |-> TRUE, source |-> "openai-api"],
                    <<create, write, call>> \o unlinked, left)

\* WhisperService.transcribe
WhisperServiceTranscribe(size, filename, language, env) ==
    LET file_extension == Lower(Suffix(filename))
    IN  IF ~ws_is_loaded
        THEN Raise("Exception", 0, <<"Whisper service not ready">>, <<>>, tmp_files)
        ELSE IF file_extension \notin allowed_extensions
        THEN Raise("Exception", 0, <<"Unsupported file format: ">> \o file_extension, <<>>, tmp_files)
        ELSE IF size > MAX_FILE_SIZE
        THEN Raise("Exception", 0, <<"File too large. Maximum size: 25MB">>, <<>>, tmp_files)
        ELSE WhisperApiTranscribe(size, file_extension, language, env)

WhisperTranscribe ==
    /\ \E filename \in Filenames, size \in Sizes, language \in Languages, env \in TranscribeEnvs :
         /\ ws_is_loaded => Cardinality(tmp_files) < MaxTmpFiles
         /\ LET done == WhisperServiceTranscribe(size, filename, language, env)
            IN  /\ last' = [op |-> "WhisperService.transcribe", filename |-> filename,
                            size |-> size, ready |-> ws_is_loaded,
                            result |-> [kind |-> done.kind,
                                        value |-> IF done.kind = "return" THEN done.value ELSE done.exc]]
                /\ events' = done.events
                /\ tmp_files' = done.files
    /\ UNCHANGED <<env_vars, main_vars, ws_vars, os_vars>>

NextTranscribe == Startup \/ LoadModel \/ TranscribeAudio \/ WhisperTranscribe

SpecTranscribe == Init /\ [][NextTranscribe]_vars

----------------------------------------------------------------------------
\* GET / and GET /health of main.py

Root ==
    /\ started
    /\ last' = [op |-> "root",
                http |-> [status_code |-> 200,
                          body |-> [status |-> "running",
                                    whisper_loaded |-> whisper_model,
                                    openai_configured |-> openai_client]]]
    /\ events' = <<>>
    /\ UNCHANGED <<env_vars, main_vars, ws_vars, os_vars, tmp_files>>

HealthCheck ==
    /\ started
    /\ last' = [op |-> "health_check",
                http |-> [status_code |-> 200,
                          body |-> [status |-> "healthy",
                                    whisper_loaded |-> whisper_model,
                                    openai_configured |-> openai_client,
                                    openai_available |-> openai_importable]]]
    /\ events' = <<>>
    /\ UNCHANGED <<env_vars, main_vars, ws_vars, os_vars, tmp_files>>

----------------------------------------------------------------------------
\* services/health_service.py

\* The mappings get_status is called on: any of these names, each with a
\* status dict that says ready, says not ready, or has no "ready" key.
ServiceNames == {"whisper", "openai", "storage"}
ServiceData == {[ready |-> TRUE], [ready |-> FALSE], [loaded |-> TRUE]}
ServiceMaps == UNION {[S -> ServiceData] : S \in SUBSET ServiceNames}

\* HealthService.get_service_health
get_service_health(service_name, is_ready) ==
    [service |-> service_name, ready |-> is_ready,
     status |-> IF is_ready THEN "healthy" ELSE "degraded"]

\* service_data.get("ready", False)
GetReady(service_data) ==
    IF "ready" \in DOMAIN service_data THEN service_data.ready ELSE FALSE

\* The loop of get_status over the services not visited yet: all_ready at its end.
RECURSIVE ScanServices(_, _, _)
ScanServices(services, todo, all_ready) ==
    IF todo = {} THEN all_ready
    ELSE LET service_name == CHOOSE n \in todo : TRUE
             is_ready == GetReady(services[service_name])
         IN  ScanServices(services, todo \ {service_name},
                          IF ~is_ready THEN FALSE ELSE all_ready)

\* HealthService.get_status
HealthServiceGetStatus(services) ==
    LET all_ready == ScanServices(services, DOMAIN services, TRUE)
    IN  [status |-> IF all_ready THEN "healthy" ELSE "degraded",
         services |-> [n \in DOMAIN services |->
                          get_service_health(n, GetReady(services[n]))]]

\* get_status on an arbitrary mapping, or on the two singletons' own status.
HealthGetStatus ==
    /\ \E services \in ServiceMaps \cup {[n \in {"whisper", "openai"} |->
                                            IF n = "whisper" THEN WhisperStatus ELSE OpenAIStatus]} :
         last' = [op |-> "HealthService.get_status", services |-> services,
                  result |-> HealthServiceGetStatus(services)]
    /\ events' = <<>>
    /\ UNCHANGED <<env_vars, main_vars, ws_vars, os_vars, tmp_files>>

NextHealth == Startup \/ LoadModel \/ LoadClient \/ Root \/ HealthCheck \/ HealthGetStatus

SpecHealth == Init /\ [][NextHealth]_vars

----------------------------------------------------------------------------
NextChat == Startup \/ LoadClient \/ ChatEndpoint \/ OpenAIChat

SpecChat == InitChat /\ [][NextChat]_vars

Next ==
    \/ Startup \/ Root \/ HealthCheck \/ TranscribeAudio \/ ChatEndpoint
    \/ LoadModel \/ WhisperTranscribe
    \/ LoadClient \/ OpenAIChat
    \/ HealthGetStatus

Spec == Init /\ [][Next]_vars

----------------------------------------------------------------------------
\* Properties.

TranscribeOps == {"transcribe_audio", "WhisperService.transcribe"}
ChatOps == {"chat_endpoint", "OpenAIService.chat"}

HasEvent(name) == \E i \in 1..Len(events) : events[i].ev = name

\* The last invocation raised an error whose text starts with `text`
\* (WhisperService.transcribe) or answered with status `code` (POST /transcribe).
TranscribeFailedWith(text, code) ==
    IF last.op = "transcribe_audio"
    THEN last.http.status_code = code
    ELSE last.result.kind = "raise" /\ Head(last.result.value.detail) = text

\* The last chat invocation produced a ChatResult (it did not raise, and the
\* caller got no error status).
ChatReturned ==
    IF last.op = "chat_endpoint" THEN last.http.status_code = 200 ELSE last.result.kind = "return"

ChatResult == IF last.op = "chat_endpoint" THEN last.http.body ELSE last.result.value

\* C1: after a transcription invocation, on every exit path, each temporary
\* file the invocation created has been removed from disk.
C1_StagedFileRemoved ==
    last.op \in TranscribeOps =>
        \A i \in 1..Len(events) :
            events[i].ev = "tmp.create" => events[i].path \notin tmp_files

\* C2: for a non-empty message, when the chat client is not configured or the
\* chat-completion call fails, the chat handler raises nothing and returns the
\* fallback responder's reply to the message, with tokens_used = 0 and source
\* fallback or error.
C2_FailureFallsBack ==
    (/\ last.op \in ChatOps
     /\ Strip(message) # <<>>
     /\ ~last.client \/ last.call_failed)
    => /\ ChatReturned
       /\ ChatResult.response = BasicResponse(Strip(message))
       /\ ChatResult.tokens_used = 0
       /\ ChatResult.source \in {"fallback", "error"}

\* C3: a chat request whose message is empty or only whitespace is answered
\* with status 400, with no chat-completion call and no reply.
C3_EmptyMessageIs400 ==
    (last.op = "chat_endpoint" /\ Strip(message) = <<>>)
    => /\ last.http.status_code = 400
       /\ events = <<>>
       /\ "body" \notin DOMAIN last.http

\* C4: with the engine ready, a file whose lower-cased extension is outside
\* the allowed set is rejected as an unsupported format (status 400 at the
\* endpoint), with no engine call and no temporary file.
C4_UnsupportedFormatRejected ==
    (/\ last.op \in TranscribeOps
     /\ last.ready
     /\ Lower(Suffix(last.filename)) \notin allowed_extensions)
    => /\ TranscribeFailedWith("Unsupported file format: ", 400)
       /\ ~HasEvent("tmp.create")
       /\ ~HasEvent("engine.transcribe")
       /\ ~HasEvent("audio.transcriptions.create")

\* C5: with the engine ready and the extension allowed, a payload of more
\* than 25 MiB is rejected as too large (status 413 at the endpoint) with no
\* temporary file created, and a payload of exactly 25 MiB is not rejected
\* for its size.
C5_TooLargeBeforeStaging ==
    (/\ last.op \in TranscribeOps
     /\ last.ready
     /\ Lower(Suffix(last.filename)) \in allowed_extensions)
    => /\ last.size > 25 * 1024 * 1024
          => /\ TranscribeFailedWith("File too large. Maximum size: 25MB", 413)
             /\ ~HasEvent("tmp.create")
       /\ last.size = 25 * 1024 * 1024
          => ~TranscribeFailedWith("File too large. Maximum size: 25MB", 413)

\* C6: with OPENAI_API_KEY absent, the chat clients are never ready, every
\* chat request takes the fallback path, and the transcription service, which
\* needs the same credential, never reports ready.
C6_NoCredentialNothingReady ==
    ~api_key =>
        /\ ~openai_client
        /\ ~os_is_loaded
        /\ last.op \in ChatOps /\ ChatReturned => ChatResult.source # "openai"
        /\ ~ws_is_loaded
        /\ ~WhisperStatus.ready

\* C7: the health report says "healthy" exactly when every tracked service is
\* ready, and "degraded" otherwise: HealthService.get_status over any mapping,
\* and GET /health over the transcription engine and the chat client.
C7_HealthyIffAllReady ==
    /\ last.op = "HealthService.get_status" =>
          /\ last.result.status \in {"healthy", "degraded"}
          /\ last.result.status = "healthy" <=>
                \A n \in DOMAIN last.services :
                    /\ "ready" \in DOMAIN last.services[n]
                    /\ last.services[n].ready
    /\ last.op = "health_check" =>
          /\ last.http.body.status \in {"healthy", "degraded"}
          /\ last.http.body.status = "healthy" <=>
                (last.http.body.whisper_loaded /\ last.http.body.openai_configured)

\* C8: while the transcription engine is not ready, a transcription invocation
\* fails as not ready (status 503 at the endpoint) before any temporary file
\* or engine call.
C8_NotReadyIs503 ==
    (last.op \in TranscribeOps /\ ~last.ready)
    => /\ TranscribeFailedWith("Whisper service not ready", 503)
       /\ events = <<>>

\* The keyword rules in the priority order of the claim, each with its reply.
PriorityOrder ==
    << <<GreetingWords, GREETING_REPLY>>, <<WellbeingWords, WELLBEING_REPLY>>,
       <<HelpWords, HELP_REPLY>>, <<ThanksWords, THANKS_REPLY>>,
       <<CapabilityWords, CAPABILITY_REPLY>>, <<WeatherWords, WEATHER_REPLY>>,
       <<TimeWords, TIME_REPLY>> >>

\* Rule r of the priority order has a keyword that is a substring of the
\* lower-cased message.
Matches(r, text) ==
    \E w \in PriorityOrder[r][1] :
        \E i \in 1..(Len(text) - Len(w) + 1) :
            \A k \in 1..Len(w) : LowerChar(text[i + k - 1]) = w[k]

\* C9: with no chat client configured, POST /chat answers a non-empty message
\* with source fallback, and the reply is that of the highest-priority rule
\* (greeting > well-being > offer-help > acknowledgment > capability >
\* weather > time) with a keyword in the lower-cased message.
C9_FirstMatchingRuleWins ==
    (last.op = "chat_endpoint" /\ ~last.client /\ Strip(message) # <<>>)
    => /\ last.http.status_code = 200
       /\ last.http.body.source = "fallback"
       /\ \A r \in 1..Len(PriorityOrder) :
             (Matches(r, message) /\ \A q \in 1..(r - 1) : ~Matches(q, message))
             => last.http.body.response = <<PriorityOrder[r][2]>>

\* A message that matches both the greeting and the well-being rule was
\* answered with the greeting.
C9_Witness ==
    /\ last.op = "chat_endpoint" /\ ~last.client
    /\ Matches(1, message) /\ Matches(2, message)
    /\ last.http.status_code = 200
    /\ last.http.body.response = <<GREETING_REPLY>>

NoRuleMatches == \A r \in 1..Len(PriorityOrder) : ~Matches(r, message)

\* C10 as stated: with no chat client and no keyword match, the reply is
\* 'Rozumim tve zprave: "<message>". Jak ti mohu pomoci?' around the exact
\* message the caller sent.
C10_EchoesExactOriginal ==
    (/\ last.op = "chat_endpoint" /\ ~last.client
     /\ last.http.status_code = 200
     /\ NoRuleMatches)
    => last.http.body.response =
          <<"Rozumim tve zprave: \"">> \o message \o <<"\". Jak ti mohu pomoci?">>

\* The message without the whitespace at its two ends, stated without
\* recursion: the part from its first to its last non-whitespace character.
Trimmed(text) ==
    LET solid == {i \in 1..Len(text) : text[i] \notin {" ", "\t", "\n"}}
    IN  IF solid = {} THEN <<>>
        ELSE SubSeq(text, CHOOSE i \in solid : \A j \in solid : i <= j,
                          CHOOSE i \in solid : \A j \in solid : j <= i)

\* C10, amended: with no chat client and no keyword match, the reply to a
\* non-blank message is 'Rozumim tve zprave: "<message>". Jak ti konkretne
\* mohu pomoci?' around the message with the whitespace at its ends removed.
C10_EchoesStrippedMessage ==
    (/\ last.op = "chat_endpoint" /\ ~last.client
     /\ Trimmed(message) # <<>>
     /\ NoRuleMatches)
    => /\ last.http.status_code = 200
       /\ last.http.body.response =
             <<"Rozumim tve zprave: \"">> \o Trimmed(message)
                 \o <<"\". Jak ti konkretne mohu pomoci?">>

\* A message with whitespace at an end and no keyword was echoed.
C10_Witness ==
    /\ last.op = "chat_endpoint" /\ ~last.client
    /\ NoRuleMatches
    /\ Trimmed(message) # <<>> /\ Trimmed(message) # message
    /\ last.http.status_code = 200
    /\ last.http.body.response = EchoReply(Trimmed(message))

====
